---- MODULE Spec2Model ----
(***************************************************************************)
(* Model of the Data-Analysis backend: the preprocessing pipeline of       *)
(* backend/preprocess.py and the FastAPI service of backend/main.py that   *)
(* stores "the current dataset" in a module-level global.                  *)
(*                                                                         *)
(* A table (pandas DataFrame) is a record                                  *)
(*    [idx  : sequence of row labels,                                      *)
(*     cols : sequence of [name, dtype, cells]]                            *)
(* where cells is aligned with idx.  A cell is NA (NaN / <NA>), Num(v) (an *)
(* integral number), Str(s), or Z(sgn, num, den): the real number          *)
(* sgn * sqrt(num/den) that standardisation produces, kept exact.          *)
(* Library behaviour is that of pandas 2.x and scikit-learn >= 1.2 (the    *)
(* code passes sparse_output, which older releases reject).  Floating-     *)
(* point rounding noise is not modelled: arithmetic is exact.              *)
(***************************************************************************)
EXTENDS Integers, Sequences, FiniteSets, TLC

VARIABLES
    dataset,     \* main.py: the global `dataset` (NoneT or a table)
    df,          \* the table object preprocess_data is working on
    dfIsGlobal,  \* TRUE while `df` and the global `dataset` are one object
    pc,          \* position of the running upload / pipeline
    resp,        \* the answer of the last finished /upload/ request
    served,      \* what the last accessor request got from get_dataset
    input,       \* history: the table preprocess_data was called with
    prev,        \* history: df as it was before the last stage ran
    last,        \* history: the last step taken by an upload or the pipeline
    before,      \* history: the global dataset when the upload began
    outputs,     \* history: the tables preprocess_data has returned to upload_file
    nUploads     \* number of /upload/ requests begun

vars == <<dataset, df, dfIsGlobal, pc, resp, served, input, prev, last, before,
          outputs, nUploads>>

(***************************************************************************)
(* Bounds of the model.                                                    *)
(***************************************************************************)
MaxRows == 3          \* rows of the tables fed to the pipeline alone
MaxSrvRows == 1       \* rows of the tables uploaded to the service
MaxUploads == 2       \* /upload/ requests in one run of the service
MaxOutlierRows == 5   \* length of the column fed to handle_outliers alone

AgeVals == {1, 2}                 \* numbers a parsed numeric cell may hold
OutlierVals == {1, 2, 3, 1000}    \* numbers of the outlier scenario
SortOrder == <<"LA", "NY", "SF">>       \* the category strings, in ascending string order
CityVals == {SortOrder[i] : i \in 1..Len(SortOrder)}

(***************************************************************************)
(* Cells and tables.                                                       *)
(***************************************************************************)
NoneT == [k |-> "None"]
NA == [k |-> "na"]
Num(v) == [k |-> "num", v |-> v]
Str(s) == [k |-> "str", s |-> s]
Z(sgn, num, den) == [k |-> "z", sgn |-> sgn, num |-> num, den |-> den]

IsNA(c) == c.k = "na"
Rank(s) == CHOOSE i \in 1..Len(SortOrder) : SortOrder[i] = s

NRows(t) == Len(t.idx)
NCols(t) == Len(t.cols)
NonNA(cells) == SelectSeq(cells, LAMBDA c : ~IsNA(c))
HasNA(t) == \E j \in 1..NCols(t) : \E i \in 1..Len(t.cols[j].cells) : IsNA(t.cols[j].cells[i])

RECURSIVE SumSeq(_)
SumSeq(s) == IF s = <<>> THEN 0 ELSE Head(s) + SumSeq(Tail(s))

RECURSIVE GCD(_, _)
GCD(a, b) == IF b = 0 THEN a ELSE GCD(b, a % b)

Abs(a) == IF a < 0 THEN -a ELSE a

\* numpy / Python round(): to the nearest integer, halves to the even neighbour.
RoundHalfEven(num, den) ==
    LET fl == num \div den
        r2 == 2 * (num - fl * den)
    IN  IF r2 < den THEN fl
        ELSE IF r2 > den THEN fl + 1
        ELSE IF fl % 2 = 0 THEN fl ELSE fl + 1

\* pandas select_dtypes(include=np.number) and select_dtypes(include=['object'])
IsNumberDtype(d) == d \in {"int64", "float64", "Int64"}
IsObjectDtype(d) == d = "object"
NumCols(t) == SelectSeq([j \in 1..NCols(t) |-> j], LAMBDA j : IsNumberDtype(t.cols[j].dtype))
CatCols(t) == SelectSeq([j \in 1..NCols(t) |-> j], LAMBDA j : IsObjectDtype(t.cols[j].dtype))
InSeq(x, s) == \E i \in 1..Len(s) : s[i] = x

\* pd.read_csv / pd.read_excel dtype inference for a column of parsed cells:
\* no rows -> object; only missing cells -> float64 (NaN); numbers with a
\* missing cell -> float64; numbers -> int64; strings -> object.
ParseDtype(cells) ==
    IF Len(cells) = 0 THEN "object"
    ELSE IF \E i \in 1..Len(cells) : cells[i].k = "str" THEN "object"
    ELSE IF \E i \in 1..Len(cells) : IsNA(cells[i]) THEN "float64"
    ELSE "int64"

ParsedCol(name, cells) == [name |-> name, dtype |-> ParseDtype(cells), cells |-> cells]

SeqsOfLen(S, n) == [1..n -> S]
AgeCells == {NA} \cup {Num(v) : v \in AgeVals}
CityCells == {NA} \cup {Str(s) : s \in CityVals}

\* The tables the parser can hand over, with exactly n rows (RangeIndex 0..n-1).
TablesOfLen(n) ==
    LET ix == [i \in 1..n |-> i - 1]
    IN  {[idx |-> ix, cols |-> <<ParsedCol("age", a)>>] : a \in SeqsOfLen(AgeCells, n)}
        \cup {[idx |-> ix, cols |-> <<ParsedCol("city", c)>>] : c \in SeqsOfLen(CityCells, n)}
        \cup {[idx |-> ix, cols |-> <<ParsedCol("age", a), ParsedCol("city", c)>>] :
                 a \in SeqsOfLen(AgeCells, n), c \in SeqsOfLen(CityCells, n)}
Tables(max) == UNION {TablesOfLen(n) : n \in 0..max}

(***************************************************************************)
(* handle_missing_values                                                   *)
(***************************************************************************)
Count(cells, v) == Len(SelectSeq(cells, LAMBDA c : c = v))

\* Variant: of the most frequent values, the one that occurs first.
ModeFirstOccurrence(cells) ==
    LET vals == {cells[i] : i \in {j \in 1..Len(cells) : ~IsNA(cells[j])}}
        best == {v \in vals : \A w \in vals : Count(cells, w) <= Count(cells, v)}
        first(v) == CHOOSE i \in 1..Len(cells) :
                        cells[i] = v /\ \A m \in 1..(i - 1) : cells[m] # v
    IN  CHOOSE v \in best : \A w \in best : first(v) <= first(w)

\* Series.mode()[0]: pandas returns the modes sorted ascending, so [0] is the
\* smallest of the most frequent non-missing values.
Mode(cells) ==
    LET vals == {cells[i] : i \in {j \in 1..Len(cells) : ~IsNA(cells[j])}}
        best == {v \in vals : \A w \in vals : Count(cells, w) <= Count(cells, v)}
    IN  CHOOSE v \in best : \A w \in best : Rank(v.s) <= Rank(w.s)

\* Series.mean().round() over the non-missing cells; NaN when there are none.
MeanRounded(cells) ==
    LET nn == NonNA(cells)
    IN  IF Len(nn) = 0 THEN NA
        ELSE Num(RoundHalfEven(SumSeq([i \in 1..Len(nn) |-> nn[i].v]), Len(nn)))

FillNA(cells, v) == [i \in 1..Len(cells) |-> IF IsNA(cells[i]) THEN v ELSE cells[i]]

\* mode() of a column without a non-missing value is empty and [0] raises.
ImputeFails(c) == IsObjectDtype(c.dtype) /\ Len(NonNA(c.cells)) = 0

ImputeCol(c) ==
    IF IsObjectDtype(c.dtype)
    THEN [c EXCEPT !.cells = FillNA(c.cells, Mode(c.cells))]
    ELSE [c EXCEPT !.cells = FillNA(c.cells, MeanRounded(c.cells))]

\* The first column of `bad`, the columns on which a stage raises; 0 if none.
FirstOf(bad) == IF bad = {} THEN 0 ELSE CHOOSE j \in bad : \A m \in bad : j <= m

\* The loop rewrites the columns one after the other, in place: the first
\* column on which it raises stops it, the columns before it stay rewritten.
handle_missing_values(t) ==
    LET ff == FirstOf({j \in 1..NCols(t) : ImputeFails(t.cols[j])})
    IN  [ok  |-> ff = 0,
         tbl |-> [t EXCEPT !.cols = [j \in 1..NCols(t) |->
                    IF ff = 0 \/ j < ff THEN ImputeCol(t.cols[j]) ELSE t.cols[j]]]]

(***************************************************************************)
(* remove_duplicates                                                       *)
(***************************************************************************)
Row(t, i) == [j \in 1..NCols(t) |-> t.cols[j].cells[i]]

\* drop_duplicates keeps the first of equal rows (NaN equals NaN) and keeps
\* the surviving rows' labels.
KeptPositions(t) ==
    SelectSeq([i \in 1..NRows(t) |-> i],
              LAMBDA i : \A m \in 1..(i - 1) : Row(t, m) # Row(t, i))

Take(s, pos) == [i \in 1..Len(pos) |-> s[pos[i]]]

remove_duplicates(t) ==
    LET kp == KeptPositions(t)
    IN  [ok  |-> TRUE,
         tbl |-> [idx  |-> Take(t.idx, kp),
                  cols |-> [j \in 1..NCols(t) |->
                              [t.cols[j] EXCEPT !.cells = Take(t.cols[j].cells, kp)]]]]

(***************************************************************************)
(* handle_outliers                                                         *)
(***************************************************************************)
\* The non-missing numbers of a column, ascending (quantile and median skip NaN).
SortedVals(cells) ==
    LET nn == NonNA(cells)
    IN  SortSeq([i \in 1..Len(nn) |-> nn[i].v], LAMBDA a, b : a < b)

\* Variant: interpolation='lower', the neighbour below the position.
QuantileLowerX4(s, k) == 4 * s[((Len(s) - 1) * k) \div 4 + 1]

\* Series.quantile(k/4), linear interpolation, times 4: the position
\* (n-1)*k/4 lies between two neighbours of the sorted values.
QuantileX4(s, k) ==
    LET pos4 == (Len(s) - 1) * k
        lo == pos4 \div 4
        fr == pos4 % 4
    IN  IF fr = 0 THEN 4 * s[lo + 1]
        ELSE 4 * s[lo + 1] + fr * (s[lo + 2] - s[lo + 1])

\* round(Series.median())
MedianRounded(s) ==
    LET n == Len(s)
    IN  IF n % 2 = 1 THEN s[(n + 1) \div 2]
        ELSE RoundHalfEven(s[n \div 2] + s[n \div 2 + 1], 2)

\* (x < Q1 - 1.5*IQR) | (x > Q3 + 1.5*IQR), both sides times 8.
IsOutlier(x, s) ==
    LET q1 == QuantileX4(s, 1)
        q3 == QuantileX4(s, 3)
        iqr == q3 - q1
    IN  \/ 8 * x < 2 * q1 - 3 * iqr
        \/ 8 * x > 2 * q3 + 3 * iqr

\* round(NaN) raises: the median of a column without a non-missing value.
OutlierFails(c) == Len(NonNA(c.cells)) = 0

OutlierCol(c) ==
    LET s == SortedVals(c.cells)
        m == MedianRounded(s)
    IN  [c EXCEPT !.cells = [i \in 1..Len(c.cells) |->
            IF ~IsNA(c.cells[i]) /\ IsOutlier(c.cells[i].v, s)
            THEN Num(m) ELSE c.cells[i]]]

handle_outliers(t) ==
    LET ff == FirstOf({j \in 1..NCols(t) :
                         IsNumberDtype(t.cols[j].dtype) /\ OutlierFails(t.cols[j])})
    IN  [ok  |-> ff = 0,
         tbl |-> [t EXCEPT !.cols = [j \in 1..NCols(t) |->
                    IF IsNumberDtype(t.cols[j].dtype) /\ (ff = 0 \/ j < ff)
                    THEN OutlierCol(t.cols[j]) ELSE t.cols[j]]]]

(***************************************************************************)
(* scale_numerical_features                                                *)
(***************************************************************************)
Sign(a) == IF a < 0 THEN -1 ELSE IF a > 0 THEN 1 ELSE 0

Zero == Z(0, 0, 1)

\* Variant: a scaler that divides by the deviation itself, 0/0 = NaN.
ScaleColDivideByZero(c) ==
    LET nn == NonNA(c.cells)
        n == Len(nn)
        S == SumSeq([i \in 1..n |-> nn[i].v])
        D == SumSeq([i \in 1..n |-> (n * nn[i].v - S) * (n * nn[i].v - S)])
        z(x) == LET dev == n * x - S
                    g == GCD(n * dev * dev, D)
                IN  IF D = 0 THEN NA
                    ELSE IF dev = 0 THEN Zero
                    ELSE Z(Sign(dev), (n * dev * dev) \div g, D \div g)
    IN  [c EXCEPT !.dtype = "float64",
                  !.cells = [i \in 1..Len(c.cells) |->
                      IF IsNA(c.cells[i]) THEN NA ELSE z(c.cells[i].v)]]

\* StandardScaler: z = (x - mean) / scale with scale the population standard
\* deviation, and scale 1 in its place when the deviation is 0.  With n values
\* of sum S, dev_i = n*x_i - S and D = sum of dev_i^2:  z_i^2 = n*dev_i^2 / D.
\* Assigning the floats through df.loc upcasts an int64 column to float64.
ScaleCol(c) ==
    LET nn == NonNA(c.cells)
        n == Len(nn)
        S == SumSeq([i \in 1..n |-> nn[i].v])
        D == SumSeq([i \in 1..n |-> (n * nn[i].v - S) * (n * nn[i].v - S)])
        z(x) == LET dev == n * x - S
                    g == GCD(n * dev * dev, D)
                IN  IF D = 0 \/ dev = 0 THEN Zero
                    ELSE Z(Sign(dev), (n * dev * dev) \div g, D \div g)
    IN  [c EXCEPT !.dtype = "float64",
                  !.cells = [i \in 1..Len(c.cells) |->
                      IF IsNA(c.cells[i]) THEN NA ELSE z(c.cells[i].v)]]

\* fit_transform raises on a frame without a column or without a row.
ScaleFails(t) == NumCols(t) = <<>> \/ NRows(t) = 0

scale_numerical_features(t) ==
    IF ScaleFails(t) THEN [ok |-> FALSE, tbl |-> t]
    ELSE [ok  |-> TRUE,
          tbl |-> [t EXCEPT !.cols = [j \in 1..NCols(t) |->
                     IF IsNumberDtype(t.cols[j].dtype)
                     THEN ScaleCol(t.cols[j]) ELSE t.cols[j]]]]

(***************************************************************************)
(* encode_categorical_variables                                            *)
(***************************************************************************)
\* Variant: the distinct values in order of first occurrence.
CategoriesFirstOccurrence(cells) ==
    LET pos == SelectSeq([i \in 1..Len(cells) |-> i],
                         LAMBDA i : ~IsNA(cells[i]) /\ \A m \in 1..(i - 1) : cells[m] # cells[i])
    IN  [i \in 1..Len(pos) |-> cells[pos[i]].s]

\* OneHotEncoder(categories='auto'): the distinct values of the column, sorted.
Categories(cells) ==
    SelectSeq(SortOrder, LAMBDA s : \E i \in 1..Len(cells) : cells[i] = Str(s))

\* drop='first': the first category gets no indicator column.
KeptCategories(cells) ==
    LET cs == Categories(cells) IN IF cs = <<>> THEN <<>> ELSE Tail(cs)

\* One indicator column of encoded_df: float64, rows labelled 0..n-1.
Indicator(c, s) ==
    [name  |-> c.name \o "_" \o s,
     dtype |-> "float64",
     cells |-> [i \in 1..Len(c.cells) |-> IF c.cells[i] = Str(s) THEN Num(1) ELSE Num(0)]]

RECURSIVE IndicatorsFrom(_, _)
IndicatorsFrom(t, js) ==
    IF js = <<>> THEN <<>>
    ELSE LET c == t.cols[Head(js)]
             ks == KeptCategories(c.cells)
         IN  [i \in 1..Len(ks) |-> Indicator(c, ks[i])] \o IndicatorsFrom(t, Tail(js))

\* pd.DataFrame(encoded, columns=...): a fresh RangeIndex 0..n-1.
EncodedDf(t) ==
    [idx  |-> [i \in 1..NRows(t) |-> i - 1],
     cols |-> IndicatorsFrom(t, CatCols(t))]

\* df.drop(columns=cat_cols, inplace=True)
DropCat(t) ==
    [t EXCEPT !.cols = SelectSeq(t.cols, LAMBDA c : ~IsObjectDtype(c.dtype))]

PosOf(ix, lbl) == IF InSeq(lbl, ix) THEN CHOOSE i \in 1..Len(ix) : ix[i] = lbl ELSE 0

\* The row labels of pd.concat([a, b], axis=1): those of a, then those of b
\* that a does not have.
UnionIndex(a, b) == a \o SelectSeq(b, LAMBDA l : ~InSeq(l, a))

Reindex(t, ix) ==
    [j \in 1..NCols(t) |->
        [t.cols[j] EXCEPT !.cells = [i \in 1..Len(ix) |->
            IF PosOf(t.idx, ix[i]) = 0 THEN NA
            ELSE t.cols[j].cells[PosOf(t.idx, ix[i])]]]]

\* pd.concat([a, b], axis=1): an outer join of the two frames on the row label.
ConcatColumns(a, b) ==
    LET ix == UnionIndex(a.idx, b.idx)
    IN  [idx |-> ix, cols |-> Reindex(a, ix) \o Reindex(b, ix)]

encode_categorical_variables(t) ==
    IF CatCols(t) = <<>> THEN [ok |-> TRUE, tbl |-> t]
    ELSE [ok |-> TRUE, tbl |-> ConcatColumns(DropCat(t), EncodedDf(t))]

(***************************************************************************)
(* preprocess_data, lines 58-61: float columns holding only whole numbers  *)
(* become Int64                                                            *)
(***************************************************************************)
IsSquare(a) == \E r \in 0..a : r * r = a

IsIntegral(c) ==
    IF c.k = "z" THEN c.den = 1 /\ IsSquare(c.num) ELSE c.k = "num"

RestoreCol(c) ==
    LET nn == NonNA(c.cells)
    IN  IF \A i \in 1..Len(nn) : IsIntegral(nn[i])
        THEN [c EXCEPT !.dtype = "Int64"] ELSE c

restore_integers(t) ==
    [ok  |-> TRUE,
     tbl |-> [t EXCEPT !.cols = [j \in 1..NCols(t) |->
                IF t.cols[j].dtype = "float64" THEN RestoreCol(t.cols[j]) ELSE t.cols[j]]]]

(***************************************************************************)
(* preprocess_data: the stages, one step each.  Every stage but the        *)
(* encoder's concat rewrites the object it was given, so while that object *)
(* is the service's global the rewrite shows there too.                    *)
(***************************************************************************)
StageStep(from, to, name, r) ==
    /\ pc = from
    /\ prev' = df
    /\ last' = name
    /\ df' = r.tbl
    /\ pc' = IF r.ok THEN to ELSE "failed"
    /\ dataset' = IF dfIsGlobal THEN r.tbl ELSE dataset
    /\ UNCHANGED <<dfIsGlobal, resp, served, input, before, outputs, nUploads>>

HandleMissing ==
    StageStep("parsed", "imputed", "handle_missing_values", handle_missing_values(df))

RemoveDuplicates ==
    StageStep("imputed", "deduped", "remove_duplicates", remove_duplicates(df))

HandleOutliers ==
    StageStep("deduped", "outliers", "handle_outliers", handle_outliers(df))

ScaleNumerical ==
    StageStep("outliers", "scaled", "scale_numerical_features", scale_numerical_features(df))

\* With a categorical column the result is a new object and the old one is
\* left with its categorical columns dropped.
EncodeCategorical ==
    /\ pc = "scaled"
    /\ prev' = df
    /\ last' = "encode_categorical_variables"
    /\ df' = encode_categorical_variables(df).tbl
    /\ pc' = "encoded"
    /\ dataset' = IF dfIsGlobal THEN DropCat(df) ELSE dataset
    /\ dfIsGlobal' = (dfIsGlobal /\ CatCols(df) = <<>>)
    /\ UNCHANGED <<resp, served, input, before, outputs, nUploads>>

RestoreIntegers ==
    StageStep("encoded", "restored", "restore_integers", restore_integers(df))

(***************************************************************************)
(* main.py: /upload/                                                       *)
(***************************************************************************)
Strip(s) ==
    LET keep == {i \in 1..Len(s) : s[i] # " "}
    IN  IF keep = {} THEN <<>>
        ELSE LET a == CHOOSE i \in keep : \A j \in keep : i <= j
                 b == CHOOSE i \in keep : \A j \in keep : j <= i
             IN  SubSeq(s, a, b)

EndsWith(s, suf) ==
    Len(s) >= Len(suf) /\ SubSeq(s, Len(s) - Len(suf) + 1, Len(s)) = suf

Supported(name) ==
    \/ EndsWith(Strip(name), <<".", "c", "s", "v">>)
    \/ EndsWith(Strip(name), <<".", "x", "l", "s", "x">>)

Filenames ==
    { <<"d", ".", "c", "s", "v">>,
      <<" ", "d", ".", "x", "l", "s", "x", " ">>,
      <<"d", ".", "j", "s", "o", "n">>,
      <<"d", ".", "c", "s", "v", ".", "b", "a", "k">> }

NoResp == [status |-> 0, detail |-> ""]
UnsupportedDetail == "Only CSV and XLSX files are supported."
NoDatasetDetail == "No dataset uploaded. Please upload a file first."

\* except Exception as e: raise HTTPException(500, f"Error processing file: {str(e)}")
ErrorResp(msg) == [status |-> 500, detail |-> "Error processing file: " \o msg]

\* raise HTTPException(status_code=400, ...) inside the try block: an
\* HTTPException is an Exception, so the handler of line 47 catches it; its
\* str() is "<status>: <detail>".
RejectResp == ErrorResp("400: " \o UnsupportedDetail)

UploadReject(name) ==
    /\ pc = "idle"
    /\ nUploads < MaxUploads
    /\ ~Supported(name)
    /\ nUploads' = nUploads + 1
    /\ before' = dataset
    /\ last' = "reject"
    /\ resp' = RejectResp
    /\ UNCHANGED <<dataset, df, dfIsGlobal, pc, served, input, prev, outputs>>

\* pd.read_csv / pd.read_excel raises on bytes it cannot parse.
UploadParseFail(name) ==
    /\ pc = "idle"
    /\ nUploads < MaxUploads
    /\ Supported(name)
    /\ nUploads' = nUploads + 1
    /\ before' = dataset
    /\ last' = "parse_fail"
    /\ resp' = ErrorResp("parse error")
    /\ UNCHANGED <<dataset, df, dfIsGlobal, pc, served, input, prev, outputs>>

\* dataset = pd.read_csv(...): the parsed table is stored in the global, and
\* preprocess_data(dataset) is then called on that very object.
UploadParse(name, t) ==
    /\ pc = "idle"
    /\ nUploads < MaxUploads
    /\ Supported(name)
    /\ nUploads' = nUploads + 1
    /\ before' = dataset
    /\ last' = "parse"
    /\ dataset' = t
    /\ df' = t
    /\ input' = t
    /\ dfIsGlobal' = TRUE
    /\ prev' = NoneT
    /\ pc' = "parsed"
    /\ resp' = NoResp
    /\ UNCHANGED <<served, outputs>>

\* A stage raised: the handler answers 500; the global is not restored.  The
\* locals of the request are gone.
UploadFail ==
    /\ pc = "failed"
    /\ nUploads > 0
    /\ pc' = "idle"
    /\ last' = "upload_fail"
    /\ resp' = ErrorResp("stage error")
    /\ df' = NoneT
    /\ prev' = NoneT
    /\ input' = NoneT
    /\ dfIsGlobal' = FALSE
    /\ UNCHANGED <<dataset, served, before, outputs, nUploads>>

\* dataset = preprocess_data(dataset), then the 200 answer with the shape.
UploadCommit ==
    /\ pc = "restored"
    /\ nUploads > 0
    /\ dataset' = df
    /\ outputs' = outputs \cup {df}
    /\ pc' = "idle"
    /\ last' = "commit"
    /\ resp' = [status |-> 200, detail |-> "File uploaded and preprocessed successfully!",
                rows |-> NRows(df), columns |-> NCols(df)]
    /\ df' = NoneT
    /\ prev' = NoneT
    /\ input' = NoneT
    /\ dfIsGlobal' = FALSE
    /\ UNCHANGED <<served, before, nUploads>>

(***************************************************************************)
(* main.py: get_dataset and the accessors that depend on it.  They are     *)
(* plain `def` endpoints, which FastAPI runs on worker threads, so they    *)
(* can run at any point of an upload.                                      *)
(***************************************************************************)
get_dataset(endpoint) ==
    IF dataset = NoneT
    THEN [endpoint |-> endpoint, status |-> 400, detail |-> NoDatasetDetail]
    ELSE [endpoint |-> endpoint, status |-> 200, tbl |-> dataset]

Access(endpoint) ==
    /\ served' = get_dataset(endpoint)
    /\ UNCHANGED <<dataset, df, dfIsGlobal, pc, resp, input, prev, last, before,
                   outputs, nUploads>>

GetShape == Access("/shape/")

ShowColumns == Access("/show-columns/")

DownloadCleaned == Access("/download/")

(***************************************************************************)
(* Specifications.                                                         *)
(***************************************************************************)
Stages ==
    \/ HandleMissing
    \/ RemoveDuplicates
    \/ HandleOutliers
    \/ ScaleNumerical
    \/ EncodeCategorical
    \/ RestoreIntegers

\* The service: dataset = None at start-up.
Init ==
    /\ dataset = NoneT
    /\ df = NoneT
    /\ dfIsGlobal = FALSE
    /\ pc = "idle"
    /\ resp = NoResp
    /\ served = NoResp
    /\ input = NoneT
    /\ prev = NoneT
    /\ last = "start"
    /\ before = NoneT
    /\ outputs = {}
    /\ nUploads = 0

Next ==
    \/ \E name \in Filenames : UploadReject(name)
    \/ \E name \in Filenames : UploadParseFail(name)
    \/ \E name \in Filenames : \E t \in Tables(MaxSrvRows) : UploadParse(name, t)
    \/ Stages
    \/ UploadFail
    \/ UploadCommit
    \/ GetShape
    \/ ShowColumns
    \/ DownloadCleaned

Spec == Init /\ [][Next]_vars

\* A call of preprocess_data(df) outside the service, on table t.
Called(t, at) ==
    /\ dataset = NoneT
    /\ df = t
    /\ dfIsGlobal = FALSE
    /\ pc = at
    /\ resp = NoResp
    /\ served = NoResp
    /\ input = t
    /\ prev = NoneT
    /\ last = "start"
    /\ before = NoneT
    /\ outputs = {}
    /\ nUploads = 0

\* preprocess_data alone, on every table of at most MaxRows rows.
InitPipeline == \E t \in Tables(MaxRows) : Called(t, "parsed")

SpecPipeline == InitPipeline /\ [][Stages]_vars

\* handle_outliers alone, on every one-column table of at most
\* MaxOutlierRows numbers.
OutlierInputs ==
    UNION {{[idx |-> [i \in 1..n |-> i - 1],
             cols |-> <<ParsedCol("x", [i \in 1..n |-> Num(a[i])])>>] :
                a \in SeqsOfLen(OutlierVals, n)} : n \in 1..MaxOutlierRows}

InitOutliers == \E t \in OutlierInputs : Called(t, "deduped")

SpecOutliers == InitOutliers /\ [][HandleOutliers]_vars

(***************************************************************************)
(* Properties.                                                             *)
(***************************************************************************)
StageNames ==
    {"handle_missing_values", "remove_duplicates", "handle_outliers",
     "scale_numerical_features", "encode_categorical_variables", "restore_integers"}

PostImputer == {"imputed", "deduped", "outliers", "scaled", "encoded", "restored"}

EntirelyMissing(c) ==
    Len(c.cells) > 0 /\ \A i \in 1..Len(c.cells) : IsNA(c.cells[i])

HasEntirelyMissing(t) == \E j \in 1..NCols(t) : EntirelyMissing(t.cols[j])

\* C1: the row count is the same before and after the imputer, the outlier
\* suppressor, the standardizer, the categorical encoder and the integer-type
\* restorer, and the deduplicator never increases it.
C1_RowCountPreserved ==
    /\ last \in StageNames \ {"remove_duplicates"} => NRows(df) = NRows(prev)
    /\ last = "remove_duplicates" => NRows(df) <= NRows(prev)

\* C2: when no column of the input is entirely missing, the table produced by
\* handle_missing_values and by every later stage has no missing cell.
C2_NoMissingAfterImputer ==
    (pc \in PostImputer /\ ~HasEntirelyMissing(input)) => ~HasNA(df)

\* C3: after an upload whose parsing succeeded and whose preprocessing failed,
\* the stored dataset is what it was before the upload.
C3_FailedUploadKeepsDataset ==
    last = "upload_fail" => (resp.status # 200 /\ dataset = before)

ConstantNumeric(c) ==
    /\ IsNumberDtype(c.dtype)
    /\ Len(c.cells) > 0
    /\ \A i \in 1..Len(c.cells) : ~IsNA(c.cells[i]) /\ c.cells[i] = c.cells[1]

HasConstantNumeric(t) == \E j \in 1..NCols(t) : ConstantNumeric(t.cols[j])

\* C4 as stated: a numeric column of standard deviation 0 makes
\* scale_numerical_features fail.
C4_DegenerateColumnFails ==
    (last = "scale_numerical_features" /\ HasConstantNumeric(prev)) => pc = "failed"

\* C4 as amended: a numeric column of standard deviation 0 does not make
\* scale_numerical_features fail; the column is kept under its name and
\* every cell of it becomes 0.
C4_DegenerateColumnZeroed ==
    (last = "scale_numerical_features" /\ HasConstantNumeric(prev)) =>
        /\ pc = "scaled"
        /\ NCols(df) = NCols(prev)
        /\ NRows(df) = NRows(prev)
        /\ \A j \in 1..NCols(prev) : ConstantNumeric(prev.cols[j]) =>
              /\ df.cols[j].name = prev.cols[j].name
              /\ \A i \in 1..NRows(df) : df.cols[j].cells[i] = Zero

C4_Witness ==
    /\ last = "scale_numerical_features"
    /\ pc = "scaled"
    /\ NRows(prev) >= 2
    /\ HasConstantNumeric(prev)

\* C5: a column without a non-missing value makes handle_missing_values
\* fail; it never returns a table in which the column is still entirely missing.
C5_AllMissingColumnFails ==
    (last = "handle_missing_values" /\ HasEntirelyMissing(prev)) =>
        (pc = "failed" /\ ~HasEntirelyMissing(df))

\* The names of the indicator columns of an encoded table: the columns after
\* the surviving non-categorical ones.
AppendedNames(old, new) ==
    LET k == Len(SelectSeq(old.cols, LAMBDA c : c.dtype # "object"))
    IN  [i \in 1..(NCols(new) - k) |-> new.cols[k + i].name]

Strings(cells) == {cells[i].s : i \in {m \in 1..Len(cells) : cells[m].k = "str"}}

FirstPos(cells, s) ==
    CHOOSE i \in 1..Len(cells) : cells[i] = Str(s) /\ \A m \in 1..(i - 1) : cells[m] # Str(s)

\* The distinct strings of a column, by first occurrence / ascending.
ByFirstOccurrence(cells) ==
    [i \in 1..Cardinality(Strings(cells)) |->
        CHOOSE s \in Strings(cells) :
            Cardinality({u \in Strings(cells) : FirstPos(cells, u) < FirstPos(cells, s)}) = i - 1]

Ascending(cells) ==
    [i \in 1..Cardinality(Strings(cells)) |->
        CHOOSE s \in Strings(cells) :
            Cardinality({u \in Strings(cells) : Rank(u) < Rank(s)}) = i - 1]

RECURSIVE Flatten(_)
Flatten(ss) == IF ss = <<>> THEN <<>> ELSE Head(ss) \o Flatten(Tail(ss))

\* The indicator names of the categorical columns js of t, when column j's
\* values are enumerated as order[j] and the first of them is omitted.
ExpectedNames(t, js, order) ==
    Flatten([n \in 1..Len(js) |->
        LET ks == Tail(order[js[n]])
        IN  [i \in 1..Len(ks) |-> t.cols[js[n]].name \o "_" \o ks[i]]])

ObjectCols(t) == SelectSeq([j \in 1..NCols(t) |-> j], LAMBDA j : t.cols[j].dtype = "object")

\* C6 as stated: the encoder enumerates the distinct values of a categorical
\* column in order of first occurrence, omits the first-occurring one and
\* appends one indicator column per remaining value in that order.
C6_FirstOccurrenceOrder ==
    (last = "encode_categorical_variables" /\ ObjectCols(prev) # <<>>) =>
        AppendedNames(prev, df) = ExpectedNames(prev, ObjectCols(prev),
                [j \in 1..NCols(prev) |-> ByFirstOccurrence(prev.cols[j].cells)])

\* C6 as amended: the encoder enumerates the distinct values of a categorical
\* column in ascending sort order, omits the smallest and appends one
\* indicator column per remaining value in ascending order.
C6_SortedOrder ==
    (last = "encode_categorical_variables" /\ ObjectCols(prev) # <<>>) =>
        AppendedNames(prev, df) = ExpectedNames(prev, ObjectCols(prev),
                [j \in 1..NCols(prev) |-> Ascending(prev.cols[j].cells)])

C6_Witness ==
    /\ last = "encode_categorical_variables"
    /\ \E j \in 1..NCols(prev) :
          /\ prev.cols[j].dtype = "object"
          /\ Cardinality(Strings(prev.cols[j].cells)) = Len(SortOrder)
          /\ prev.cols[j].cells[1] = Str("NY")
    /\ Len(AppendedNames(prev, df)) = Len(SortOrder) - 1

MostFrequent(cells) ==
    {s \in Strings(cells) :
        \A u \in Strings(cells) : Count(cells, Str(u)) <= Count(cells, Str(s))}

Imputable(c) == c.dtype = "object" /\ Strings(c.cells) # {}

\* C7 as stated: a missing categorical cell is filled with the most frequent
\* value of the column, on a tie the one whose first occurrence is earliest.
C7_TieByFirstOccurrence ==
    last = "handle_missing_values" =>
        \A j \in 1..NCols(prev) : Imputable(prev.cols[j]) =>
            \A i \in 1..NRows(prev) : IsNA(prev.cols[j].cells[i]) =>
                /\ df.cols[j].cells[i].k = "str"
                /\ df.cols[j].cells[i].s \in MostFrequent(prev.cols[j].cells)
                /\ \A u \in MostFrequent(prev.cols[j].cells) :
                      FirstPos(prev.cols[j].cells, df.cols[j].cells[i].s)
                          <= FirstPos(prev.cols[j].cells, u)

\* C7 as amended: a missing categorical cell is filled with the most frequent
\* value of the column, on a tie the smallest in sort order.
C7_TieBySortOrder ==
    last = "handle_missing_values" =>
        \A j \in 1..NCols(prev) : Imputable(prev.cols[j]) =>
            \A i \in 1..NRows(prev) : IsNA(prev.cols[j].cells[i]) =>
                /\ df.cols[j].cells[i].k = "str"
                /\ df.cols[j].cells[i].s \in MostFrequent(prev.cols[j].cells)
                /\ \A u \in MostFrequent(prev.cols[j].cells) :
                      Rank(df.cols[j].cells[i].s) <= Rank(u)

C7_Witness ==
    /\ last = "handle_missing_values"
    /\ pc = "imputed"
    /\ \E j \in 1..NCols(prev) :
          /\ Imputable(prev.cols[j])
          /\ prev.cols[j].cells = <<Str("NY"), Str("LA"), NA>>
          /\ df.cols[j].cells = <<Str("NY"), Str("LA"), Str("LA")>>

\* The k-th smallest of the numbers of a column.
Kth(cells, k) ==
    CHOOSE v \in {cells[i].v : i \in 1..Len(cells)} :
        /\ Cardinality({i \in 1..Len(cells) : cells[i].v < v}) < k
        /\ k <= Cardinality({i \in 1..Len(cells) : cells[i].v <= v})

\* Four times the quantile p/4 by linear interpolation between neighbours.
LinearQuartileX4(cells, p) ==
    LET h4 == (Len(cells) - 1) * p
        lo == h4 \div 4
        fr == h4 % 4
        hi == IF lo + 2 <= Len(cells) THEN lo + 2 ELSE Len(cells)
    IN  (4 - fr) * Kth(cells, lo + 1) + fr * Kth(cells, hi)

\* Twice the median.
MedianX2(cells) ==
    Kth(cells, (Len(cells) + 1) \div 2) + Kth(cells, Len(cells) \div 2 + 1)

OutsideFences(x, cells) ==
    LET q1 == LinearQuartileX4(cells, 1)
        q3 == LinearQuartileX4(cells, 3)
    IN  \/ 8 * x < 2 * q1 - 3 * (q3 - q1)
        \/ 8 * x > 2 * q3 + 3 * (q3 - q1)

CellsOf(vals) == [i \in 1..Len(vals) |-> Num(vals[i])]

\* C8: handle_outliers replaces exactly the values strictly outside
\* [Q1 - 1.5*IQR, Q3 + 1.5*IQR] (quartiles by linear interpolation) with the
\* median of the column before any replacement, rounded to an integer, and
\* leaves every other value as it was; [1,2,2,3,1000] becomes [1,2,2,3,2] and
\* a column of equal values is unchanged.
C8_OutliersReplacedByMedian ==
    last = "handle_outliers" =>
        /\ pc = "outliers"
        /\ \A j \in 1..NCols(prev) : IsNumberDtype(prev.cols[j].dtype) =>
              LET old == prev.cols[j].cells
                  new == df.cols[j].cells
              IN  /\ Len(new) = Len(old)
                  /\ \A i \in 1..Len(old) :
                        IF OutsideFences(old[i].v, old)
                        THEN /\ new[i].k = "num"
                             /\ Abs(2 * new[i].v - MedianX2(old)) <= 1
                        ELSE new[i] = old[i]
                  /\ old = CellsOf(<<1, 2, 2, 3, 1000>>) => new = CellsOf(<<1, 2, 2, 3, 2>>)
                  /\ (\A i \in 1..Len(old) : old[i] = old[1]) => new = old

C8_Witness ==
    /\ last = "handle_outliers"
    /\ prev.cols[1].cells = CellsOf(<<1, 2, 2, 3, 1000>>)
    /\ df.cols[1].cells = CellsOf(<<1, 2, 2, 3, 2>>)

\* C9: an accessor either gets the 'No dataset uploaded' error or observes a
\* table that is the complete output of preprocess_data for some upload.
C9_AccessorSeesCompleteOutput ==
    served.status = 200 => served.tbl \in outputs

\* C10: an upload whose filename ends with neither .csv nor .xlsx is answered
\* with status 400 and the detail 'Only CSV and XLSX files are supported.',
\* and leaves the stored dataset unchanged.
C10_UnsupportedAnswered400 ==
    last = "reject" =>
        /\ resp.status = 400
        /\ resp.detail = UnsupportedDetail
        /\ dataset = before

====
